---- MODULE Spec2Model ----
(***************************************************************************)
(* A model of the n-layer network of testInput.c: the weight file codec    *)
(* (saveWeights, propagateWeightsFromFile), the training loop (train,      *)
(* runWhilstTraining), the buffers of a session (allocateMemory,           *)
(* freeMemory), the evaluation of the test cases (runTestCases, run) and   *)
(* the loaders of the data set.                                            *)
(*                                                                         *)
(* Arrays keep the 0-based indices of the C source: lengths, weights[n],   *)
(* a[n] ... are functions over 0..len-1.  In the codec specifications a    *)
(* weight element is its object representation, the SizeofDouble bytes     *)
(* that fwrite and fread copy; in the training specification it is a       *)
(* number (see the arithmetic section).                                    *)
(***************************************************************************)
EXTENDS Integers, Sequences, FiniteSets, TLC

VARIABLES
    lengths,               \* int* lengths: the node count of each layer
    weights,               \* double*** weights
    pc,                    \* position of the program
    returnValue,           \* int returnValue of the running / last function
    \* the weight file codec
    networkConfiguration,  \* char networkConfiguration[]: text of the topology
    disk,                  \* the bytes of the file named loadFileName / saveFileName
    pos,                   \* file position indicator of the open FILE*
    ln, lk,                \* loop counters n and k of propagateWeightsFromFile
    ops,                   \* number of saves and loads called so far
    lastOp,                \* the operation that ended last
    weightsBefore,         \* history: weights when the running load was called
    mismatchSeen,          \* history: a header count differed from lengths[n]
    shortRead,             \* history: an fread of the load stored too few items
    loadOpenFailed,        \* history: fopen of the load returned NULL
    saveOpenFailed,        \* history: fopen of the last save returned NULL
    saveIncomplete,        \* history: a write of the last save stored too little
    savedWeights,          \* history: weights when the last save was called
    roundTrip,             \* history: the last save stored everything and returned 0
    \* training
    a,                     \* double** a: the activations of each layer
    Theta,                 \* double** Theta, layers 1 .. activationLayers - 2
    Psi,                   \* double** Psi, layers 2 .. activationLayers - 1
    testCases,             \* double** testCases
    truthTable,            \* double** truthTable
    maxIterations,         \* int maxIterations
    maxAcceptableError,    \* double maxAcceptableError
    lambda,                \* double lambda, the learning rate
    iterationsCount,       \* int iterationsCount of train
    EAverage,              \* double EAverage of train
    ESum,                  \* double ESum of train
    it,                    \* loop counter it of train
    finalError,            \* *finalError
    totalIterations,       \* *totalIterations
    processed,             \* history: the examples of this iteration, in order
    squares,               \* history: each one's sum of squared residuals
    averages,              \* history: the EAverage of every finished iteration
    forwardWeights,        \* history: weights the last forward pass read
    backwardWeights,       \* history: weights the last backward pass left
    psi1,                  \* history: the Psik of each node of layer 1
    \* the session
    training,              \* bool training
    printTruthTable,       \* bool printTruthTable
    reordering,            \* int reordering
    heap,                  \* the live blocks of malloc / calloc and their lengths
    wildFrees,             \* history: pointers passed to free that no block answers
    touched,               \* history: the array elements training read or wrote
    \* the FILE* of the running / last file operation
    fileOpened,            \* history: its fopen returned a stream
    closes                 \* history: the state of the handle at each fclose of it

sharedVars == <<lengths, weights, pc, returnValue>>

codecVars == <<networkConfiguration, disk, pos, ln, lk, ops, lastOp, weightsBefore,
               mismatchSeen, shortRead, loadOpenFailed, saveOpenFailed,
               saveIncomplete, savedWeights, roundTrip>>

trainVars == <<a, Theta, Psi, testCases, truthTable, maxIterations,
               maxAcceptableError, lambda, iterationsCount, EAverage, ESum, it,
               finalError, totalIterations, processed, squares, averages,
               forwardWeights, backwardWeights, psi1>>

sessionVars == <<training, printTruthTable, reordering, heap, wildFrees, touched>>

fileVars == <<fileOpened, closes>>

vars == <<sharedVars, codecVars, trainVars, sessionVars, fileVars>>

----------------------------------------------------------------------------
(* Bounds of the model *)

MaxOps == 2
MaxConfigLen == 1
MaxTestCases == 2
MaxIterations == 2

(* Platform and program constants *)

SizeofInt == 4
SizeofDouble == 8
NewLine == 10
HEADER_STRING_LENGTH == 32

Min(x, y) == IF x < y THEN x ELSE y
Max(x, y) == IF x > y THEN x ELSE y

activationLayers == Cardinality(DOMAIN lengths)
NUM_LAYER_INTERVALS == activationLayers - 1

\* The lengths array of a topology given as a sequence of node counts.
LengthsOf(topology) == [n \in 0 .. Len(topology) - 1 |-> topology[n + 1]]

----------------------------------------------------------------------------
(* Object representations *)

\* The bytes of a non-negative int, least significant first.
IntBytes(x) ==
    <<x % 256, (x \div 256) % 256, (x \div 65536) % 256, (x \div 16777216) % 256>>

\* The int (32 bits, two's complement) that SizeofInt bytes hold.
BytesToInt(b) ==
    b[1] + 256 * b[2] + 65536 * b[3]
      + 16777216 * (IF b[4] >= 128 THEN b[4] - 256 ELSE b[4])

\* The object representation of the double standing for the small number v.
DoubleRep(v) == <<v % 256, (v \div 256) % 256, 0, 0, 0, 0, 0, 0>>

RECURSIVE Concat(_)
Concat(chunks) ==
    IF chunks = <<>> THEN <<>> ELSE Head(chunks) \o Concat(Tail(chunks))

\* The sequence f[0], f[1], ..., f[count - 1].
RECURSIVE ArrayToSeq(_, _)
ArrayToSeq(f, count) ==
    IF count = 0 THEN <<>> ELSE Append(ArrayToSeq(f, count - 1), f[count - 1])

----------------------------------------------------------------------------
(* The FILE* of a file operation *)

\* fclose(file): what the handle was when the call was made is added to the
\* record cl; opened tells whether fopen had returned a stream.
Fclose(opened, cl) ==
    Append(cl, IF ~opened THEN "null" ELSE IF cl = <<>> THEN "open" ELSE "closed")

----------------------------------------------------------------------------
(* saveWeights *)

\* "weight file " of the format string of snprintf
HeaderText == <<119, 101, 105, 103, 104, 116, 32, 102, 105, 108, 101, 32>>

\* snprintf(buffer, size, ...) of a text without NUL: it returns the length of the
\* whole text and stores at most size - 1 characters of it.
Snprintf(size, text) ==
    [result |-> Len(text), buffer |-> SubSeq(text, 1, Min(Len(text), size - 1))]

\* What the loop over the layers writes for layer n: the count and a newline.
CountChunks(lens, n) == <<IntBytes(lens[n]), <<NewLine>>>>

\* A saver that writes no newline after a row.
RowChunksNoNewline(lens, w, n, k) == ArrayToSeq(w[n][k], lens[n + 1])

\* What the loops write for row k of interval n: the row's lengths[n + 1] items
\* (one fwrite call, which may store any number of them) and a newline.
RowChunks(lens, w, n, k) == Append(ArrayToSeq(w[n][k], lens[n + 1]), <<NewLine>>)

RECURSIVE AllCountChunks(_, _)
AllCountChunks(lens, n) ==
    IF n = Cardinality(DOMAIN lens) THEN <<>>
    ELSE CountChunks(lens, n) \o AllCountChunks(lens, n + 1)

RECURSIVE AllRowChunks(_, _, _, _)
AllRowChunks(lens, w, n, k) ==
    IF n = Cardinality(DOMAIN lens) - 1 THEN <<>>
    ELSE IF k = lens[n] THEN AllRowChunks(lens, w, n + 1, 0)
    ELSE RowChunks(lens, w, n, k) \o AllRowChunks(lens, w, n, k + 1)

\* Every piece saveWeights hands to fwrite, in the order of the calls.
SaveChunks(header, lens, w) ==
    <<header>> \o AllCountChunks(lens, 0) \o AllRowChunks(lens, w, 0, 0)

HeaderLine(config) == HeaderText \o config \o <<NewLine>>

\* The file a complete save of these weights leaves.
SavedFile(config, lens, w) ==
    Concat(SaveChunks(Snprintf(HEADER_STRING_LENGTH, HeaderLine(config)).buffer, lens, w))

\* int saveWeights(): the whole call.  opened: fopen succeeded; stored: how many of
\* the pieces handed to fwrite reached the file before a write came up short (all
\* of them when none did); closeOk: the fclose of line 1125 returned 0.
\* The function ends with a second fclose(file) (line 1139): of NULL when fopen
\* failed, of the closed stream otherwise.  Both are undefined; the call then
\* either returns or ends the program.
SaveWeights ==
    /\ pc = "idle"
    /\ ops < MaxOps
    /\ ops' = ops + 1
    /\ lastOp' = "save"
    /\ savedWeights' = weights
    /\ \E opened \in BOOLEAN :
         IF ~opened
         THEN /\ returnValue' = -1
              /\ saveOpenFailed' = TRUE
              /\ saveIncomplete' = FALSE
              /\ roundTrip' = FALSE
              /\ disk' = disk
              /\ fileOpened' = FALSE
              /\ closes' = Fclose(FALSE, <<>>)
              /\ \E after \in {"idle", "crashed"} : pc' = after
         ELSE LET header == Snprintf(HEADER_STRING_LENGTH,
                                     HeaderLine(networkConfiguration))
              IN  /\ saveOpenFailed' = FALSE
                  /\ fileOpened' = TRUE
                  /\ IF header.result > HEADER_STRING_LENGTH
                     THEN \* nothing is written to the file opened with "wb";
                          \* the fclose of line 1139 is the only one
                          /\ closes' = Fclose(TRUE, <<>>)
                          /\ returnValue' = -1
                          /\ saveIncomplete' = FALSE
                          /\ roundTrip' = FALSE
                          /\ disk' = <<>>
                          /\ pc' = "idle"
                     ELSE LET chunks == SaveChunks(header.buffer, lengths, weights)
                          IN  \E stored \in 0 .. Len(chunks), closeOk \in BOOLEAN :
                                LET incompleteFileWriting == stored < Len(chunks)
                                IN  /\ disk' = Concat(SubSeq(chunks, 1, stored))
                                    /\ closes' = Fclose(TRUE, Fclose(TRUE, <<>>))
                                    /\ saveIncomplete' = incompleteFileWriting
                                    /\ roundTrip' = (~incompleteFileWriting /\ closeOk)
                                    /\ returnValue' =
                                         IF incompleteFileWriting \/ ~closeOk
                                         THEN -1 ELSE 0
                                    /\ \E after \in {"idle", "crashed"} : pc' = after
    /\ UNCHANGED <<trainVars, sessionVars>>
    /\ UNCHANGED <<lengths, networkConfiguration, weights, pos, ln, lk,
                   weightsBefore, mismatchSeen, shortRead, loadOpenFailed>>

----------------------------------------------------------------------------
(* propagateWeightsFromFile *)

\* The bytes left between the file position and the end of the file.
Available == Max(0, Len(disk) - pos)

\* An int object that a short fread left without a value (line 395) compares
\* equal to lengths[n] or not.
IndeterminateInts(n) == {lengths[n], lengths[n] + 1}

\* What fread(&fileKLength, sizeof(int), 1, file) can leave in fileKLength.
FreadInt(n) ==
    IF Available >= SizeofInt
    THEN {BytesToInt(SubSeq(disk, pos + 1, pos + SizeofInt))}
    ELSE IndeterminateInts(n)

\* The file position after an fread of size * count bytes.
AfterFread(bytes) == IF Available >= bytes THEN pos + bytes ELSE Max(pos, Len(disk))

\* The number of whole items fread(ptr, sizeof(double), count, file) stores.
FreadItems(count) == Min(count, Available \div SizeofDouble)

\* Item j of the file at the position: its whole object representation.
FileItem(j) == SubSeq(disk, pos + SizeofDouble * j + 1, pos + SizeofDouble * (j + 1))

\* An item the file ends in: its first bytes are the file's, the others the old ones.
PartialItem(old, j) ==
    LET have == Available - SizeofDouble * j
    IN  SubSeq(disk, pos + SizeofDouble * j + 1, Len(disk))
          \o SubSeq(old, have + 1, SizeofDouble)

\* The rows fread(weights[n][k], sizeof(double), count, file) can leave: the
\* whole items read replace the elements; an item read in part is indeterminate
\* (the old element, or the bytes read over it); the others are untouched.
FreadRow(row, count) ==
    LET items == FreadItems(count)
        partial == items < count /\ Available > SizeofDouble * items
        read == [j \in 0 .. count - 1 |-> IF j < items THEN FileItem(j) ELSE row[j]]
    IN  IF partial
        THEN {read, [read EXCEPT ![items] = PartialItem(row[items], items)]}
        ELSE {read}

\* fopen(loadFileName, "rb") and the path where it returns NULL.
LoadOpen ==
    /\ pc = "idle"
    /\ ops < MaxOps
    /\ ops' = ops + 1
    /\ weightsBefore' = weights
    /\ mismatchSeen' = FALSE
    /\ shortRead' = FALSE
    /\ \E opened \in BOOLEAN :
         /\ fileOpened' = opened
         /\ IF opened
            THEN /\ pc' = "load_skip"
                 /\ pos' = 0
                 /\ returnValue' = 0
                 /\ loadOpenFailed' = FALSE
                 /\ lastOp' = lastOp
            ELSE /\ pc' = "idle"
                 /\ pos' = pos
                 /\ returnValue' = -1
                 /\ loadOpenFailed' = TRUE
                 /\ lastOp' = "load"
    /\ closes' = <<>>
    /\ ln' = 0
    /\ lk' = 0
    /\ UNCHANGED <<trainVars, sessionVars>>
    /\ UNCHANGED <<lengths, networkConfiguration, weights, disk,
                   saveOpenFailed, saveIncomplete, savedWeights, roundTrip>>

\* One turn of while(fgetc(file) != '\n'); at the end of the file fgetc returns
\* EOF, which is not '\n', and the loop turns again.
LoadSkipHeader ==
    /\ pc = "load_skip"
    /\ IF pos < Len(disk)
       THEN /\ pos' = pos + 1
            /\ pc' = IF disk[pos + 1] = NewLine THEN "load_header" ELSE "load_skip"
       ELSE UNCHANGED <<pos, pc>>
    /\ UNCHANGED <<trainVars, sessionVars, fileVars>>
    /\ UNCHANGED <<lengths, networkConfiguration, weights, disk, returnValue, ln, lk,
                   ops, lastOp, weightsBefore, mismatchSeen, shortRead, loadOpenFailed,
                   saveOpenFailed, saveIncomplete, savedWeights, roundTrip>>

\* One turn of the loop over the layers: fread of the count, fseek over one
\* byte, comparison with lengths[n].
LoadReadCount ==
    /\ pc = "load_header"
    /\ \E fileKLength \in FreadInt(ln) :
         /\ returnValue' = IF fileKLength # lengths[ln] THEN -1 ELSE returnValue
         /\ mismatchSeen' = (mismatchSeen \/ fileKLength # lengths[ln])
    /\ shortRead' = (shortRead \/ Available < SizeofInt)
    /\ pos' = AfterFread(SizeofInt) + 1
    /\ IF ln + 1 < activationLayers
       THEN /\ ln' = ln + 1
            /\ pc' = pc
       ELSE /\ ln' = 0
            /\ pc' = "load_rows"
    /\ UNCHANGED <<trainVars, sessionVars, fileVars>>
    /\ UNCHANGED <<lengths, networkConfiguration, weights, disk, lk,
                   ops, lastOp, weightsBefore, loadOpenFailed,
                   saveOpenFailed, saveIncomplete, savedWeights, roundTrip>>

\* One turn of the loops over n and k: fread of row k of interval n into
\* weights[n][k], fseek over one byte.
LoadReadRow ==
    /\ pc = "load_rows"
    /\ \E row \in FreadRow(weights[ln][lk], lengths[ln + 1]) :
         weights' = [weights EXCEPT ![ln][lk] = row]
    /\ returnValue' = IF FreadItems(lengths[ln + 1]) < lengths[ln + 1]
                      THEN -1 ELSE returnValue
    /\ shortRead' = (shortRead \/ FreadItems(lengths[ln + 1]) < lengths[ln + 1])
    /\ pos' = AfterFread(SizeofDouble * lengths[ln + 1]) + 1
    /\ IF lk + 1 < lengths[ln]
       THEN /\ lk' = lk + 1
            /\ ln' = ln
            /\ pc' = pc
       ELSE /\ lk' = 0
            /\ ln' = ln + 1
            /\ pc' = IF ln + 1 < NUM_LAYER_INTERVALS THEN pc ELSE "load_close"
    /\ UNCHANGED <<trainVars, sessionVars, fileVars>>
    /\ UNCHANGED <<lengths, networkConfiguration, disk,
                   ops, lastOp, weightsBefore, mismatchSeen, loadOpenFailed,
                   saveOpenFailed, saveIncomplete, savedWeights, roundTrip>>

\* fclose(file); return returnValue;
LoadReturn ==
    /\ pc = "load_close"
    /\ pc' = "idle"
    /\ lastOp' = "load"
    /\ closes' = Fclose(fileOpened, closes)
    /\ fileOpened' = fileOpened
    /\ UNCHANGED <<trainVars, sessionVars>>
    /\ UNCHANGED <<lengths, networkConfiguration, weights, disk, returnValue, pos,
                   ln, lk, ops, weightsBefore, mismatchSeen, shortRead,
                   loadOpenFailed, saveOpenFailed, saveIncomplete, savedWeights,
                   roundTrip>>

----------------------------------------------------------------------------
(* The sessions of the codec *)

\* The topologies of the codec specifications; one layer count is the newline byte.
CodecTopologies == {<<1, 1>>, <<2, 1>>, <<1, 10>>, <<1, 1, 1>>}

\* The texts of networkConfiguration: MaxConfigLen characters '1' at most.
NetworkConfigurations == {[i \in 1 .. m |-> 49] : m \in 0 .. MaxConfigLen}

\* The weights array of the topology whose element (n, k, j) is Element(n, k, j).
WeightArray(lens, Element(_, _, _)) ==
    [n \in 0 .. Cardinality(DOMAIN lens) - 2 |->
        [k \in 0 .. lens[n] - 1 |->
            [j \in 0 .. lens[n + 1] - 1 |-> Element(n, k, j)]]]

\* The values propagateWeightsRandom can leave: all elements 0, all elements 10
\* (the first byte of each is the newline byte), or all elements different.
RandomWeights(lens) ==
    {WeightArray(lens, LAMBDA n, k, j : DoubleRep(v)) : v \in {0, 10}}
      \cup {WeightArray(lens, LAMBDA n, k, j : DoubleRep(266 + 100 * n + 10 * k + j))}

\* void propagateWeightsRandom(): every element gets a new value.
PropagateWeightsRandom ==
    /\ pc = "idle"
    /\ lastOp # "random"
    /\ weights' \in RandomWeights(lengths)
    /\ lastOp' = "random"
    /\ UNCHANGED <<trainVars, sessionVars, fileVars>>
    /\ UNCHANGED <<lengths, networkConfiguration, disk, pc, returnValue, pos, ln, lk,
                   ops, weightsBefore, mismatchSeen, shortRead, loadOpenFailed,
                   saveOpenFailed, saveIncomplete, savedWeights, roundTrip>>

\* The files another program can have left under loadFileName: a weight file of
\* any topology, whole or cut at any byte.
Prefixes(file) == {SubSeq(file, 1, m) : m \in 0 .. Len(file)}

EnvFiles ==
    UNION {Prefixes(SavedFile(<<>>, LengthsOf(t),
                              WeightArray(LengthsOf(t), LAMBDA n, k, j : DoubleRep(10 + j))))
           : t \in CodecTopologies}

\* No session of allocateMemory .. freeMemory is followed.
SessionUnused ==
    /\ training = FALSE /\ printTruthTable = FALSE /\ reordering = 0
    /\ heap = <<>> /\ wildFrees = {} /\ touched = {}

\* No file operation has been called.
NoFile == fileOpened = FALSE /\ closes = <<>>

\* Outside training the buffers of train are not touched.
TrainingUnused ==
    /\ a = <<>> /\ Theta = <<>> /\ Psi = <<>>
    /\ testCases = <<>> /\ truthTable = <<>>
    /\ maxIterations = 0 /\ maxAcceptableError = 0 /\ lambda = 0
    /\ iterationsCount = 0 /\ EAverage = 0 /\ ESum = 0 /\ it = 0
    /\ finalError = 0 /\ totalIterations = 0
    /\ processed = <<>> /\ squares = <<>> /\ averages = <<>>
    /\ forwardWeights = <<>> /\ backwardWeights = <<>> /\ psi1 = <<>>

InitCodec(files) ==
    /\ \E t \in CodecTopologies : lengths = LengthsOf(t)
    /\ networkConfiguration \in NetworkConfigurations
    /\ weights \in RandomWeights(lengths)
    /\ disk \in files
    /\ pc = "idle"
    /\ returnValue = 0
    /\ pos = 0
    /\ ln = 0
    /\ lk = 0
    /\ ops = 0
    /\ lastOp = "none"
    /\ weightsBefore = weights
    /\ mismatchSeen = FALSE
    /\ shortRead = FALSE
    /\ loadOpenFailed = FALSE
    /\ saveOpenFailed = FALSE
    /\ saveIncomplete = FALSE
    /\ savedWeights = weights
    /\ roundTrip = FALSE
    /\ TrainingUnused
    /\ SessionUnused
    /\ NoFile

Load == LoadOpen \/ LoadSkipHeader \/ LoadReadCount \/ LoadReadRow \/ LoadReturn

\* A session that loads a weight file found on the disk.
InitLoad == InitCodec(EnvFiles)
NextLoad == Load
SpecLoad == InitLoad /\ [][NextLoad]_vars

\* Sessions that save the weights and load them again.
InitSave == InitCodec({<<>>})
NextSave == SaveWeights \/ PropagateWeightsRandom \/ Load
SpecSave == InitSave /\ [][NextSave]_vars

----------------------------------------------------------------------------
(* Claims about the codec *)

LoadReturned == pc = "idle" /\ lastOp = "load"

\* C1: when the load reads a header in which a layer count differs from the
\* current topology, after the call every weights[n][k][j] has the value it had
\* before the call.
C1_MismatchKeepsWeights == (LoadReturned /\ mismatchSeen) => weights = weightsBefore

LoadCanLeaveHeader ==
    pc = "load_skip" => \E i \in pos + 1 .. Len(disk) : disk[i] = NewLine

\* C5: the load returns -1 whenever the file cannot be opened, a header count
\* differs or a read is short (a file that ends inside the header included), and
\* 0 only when every count matched and every row was read in full.
C5_LoadStatus ==
    /\ LoadCanLeaveHeader
    /\ LoadReturned =>
         /\ (loadOpenFailed \/ mismatchSeen \/ shortRead) => returnValue = -1
         /\ returnValue = 0 => (~loadOpenFailed /\ ~mismatchSeen /\ ~shortRead)

\* The status of every load that does return (the part of C5 that holds).
LoadStatusWhenReturned ==
    LoadReturned =>
         /\ (loadOpenFailed \/ mismatchSeen \/ shortRead) => returnValue = -1
         /\ returnValue = 0 => (~loadOpenFailed /\ ~mismatchSeen /\ ~shortRead)

SaveEnded == lastOp = "save" /\ pc \in {"idle", "crashed"}

\* C6: the save returns -1 to its caller when the file cannot be opened or a
\* write stores too little, and 0 only when everything was written in full.
C6_SaveStatus ==
    SaveEnded =>
        /\ (saveOpenFailed \/ saveIncomplete) => (pc = "idle" /\ returnValue = -1)
        /\ (pc = "idle" /\ returnValue = 0) => (~saveOpenFailed /\ ~saveIncomplete)

----------------------------------------------------------------------------
(* The arithmetic of training *)

\* In training a double is an integer, or NaN: the value that every operation
\* hands on and that every comparison answers with false.
NaN == -999999999

Add(x, y) == IF x = NaN \/ y = NaN THEN NaN ELSE x + y
Sub(x, y) == IF x = NaN \/ y = NaN THEN NaN ELSE x - y
Mul(x, y) == IF x = NaN \/ y = NaN THEN NaN ELSE x * y
Div(x, y) == IF x = NaN \/ y = NaN THEN NaN ELSE x \div y
Gt(x, y) == x # NaN /\ y # NaN /\ x > y
LessEq(x, y) == x # NaN /\ y # NaN /\ x <= y

\* The activation function bound to the network and its derivative, both
\* functions of the pre-activation sum: a saturating function of range
\* -1 .. 1 whose derivative is positive everywhere.
activationFunction(x) == IF x = NaN THEN NaN ELSE Max(-1, Min(1, x))
activationFunctionPrime(x) ==
    IF x = NaN THEN NaN ELSE 2 - activationFunction(x) * activationFunction(x)

OUTPUT_LAYER_INDEX == activationLayers - 1
PENULTIMATE_LAYER == activationLayers - 2
NUM_LAYER_INTERVALS_EXEMPTING_THE_LAST == activationLayers - 2
testCaseLength == Cardinality(DOMAIN testCases)

----------------------------------------------------------------------------
(* runWhilstTraining *)

\* The loop over k of lines 662-665 and 677-680, from k on: the
\* pre-activation sum of node j of layer n + 1.
RECURSIVE WeightedSum(_, _, _, _, _, _)
WeightedSum(act, w, n, j, k, sum) ==
    IF k = lengths[n]
    THEN sum
    ELSE WeightedSum(act, w, n, j, k + 1, Add(sum, Mul(act[n][k], w[n][k][j])))

\* The loop over j of lines 659-669 for interval n, from j on.
RECURSIVE HiddenNodes(_, _, _, _)
HiddenNodes(st, w, n, j) ==
    IF j = lengths[n + 1]
    THEN st
    ELSE LET Thetaj == WeightedSum(st.a, w, n, j, 0, 0)
         IN  HiddenNodes([st EXCEPT !.Theta[n + 1][j] = Thetaj,
                                    !.a[n + 1][j] = activationFunction(Thetaj)],
                         w, n, j + 1)

\* The loop over n of lines 657-670, from n on.
RECURSIVE HiddenLayers(_, _, _)
HiddenLayers(st, w, n) ==
    IF n >= NUM_LAYER_INTERVALS_EXEMPTING_THE_LAST
    THEN st
    ELSE HiddenLayers(HiddenNodes(st, w, n, 0), w, n + 1)

\* The loop over j of lines 674-687 for the output layer, from j on.
RECURSIVE OutputNodes(_, _, _, _, _)
OutputNodes(st, w, truth, n, j) ==
    IF j = lengths[n + 1]
    THEN st
    ELSE LET Thetaj == WeightedSum(st.a, w, n, j, 0, 0)
             out == activationFunction(Thetaj)
             omega == Sub(truth[j], out)
         IN  OutputNodes([st EXCEPT !.a[n + 1][j] = out,
                                    !.Psi[n + 1][j] =
                                        Mul(omega, activationFunctionPrime(Thetaj)),
                                    !.ESum = Add(st.ESum, Mul(omega, omega))],
                         w, truth, n, j + 1)

\* A function that returns the sum as it is.
NotHalved(sum) == sum

\* What the function returns for the sum of the squared residuals.
HalfOf(sum) == Div(sum, 2)

\* double runWhilstTraining(int iteration) on the buffers st = [a, Theta, Psi]:
\* the buffers it leaves and the error it returns.
RunWhilstTraining(st, w, iteration) ==
    LET hidden == HiddenLayers([a |-> st.a, Theta |-> st.Theta, Psi |-> st.Psi,
                                ESum |-> 0], w, 0)
        done == OutputNodes(hidden, w, truthTable[iteration], OUTPUT_LAYER_INDEX - 1, 0)
    IN  [a |-> done.a, Theta |-> done.Theta, Psi |-> done.Psi,
         error |-> HalfOf(done.ESum)]

\* void updateInputActivations(int testCaseIndex)
UpdateInputActivations(act, testCaseIndex) ==
    [act EXCEPT ![0] = [k \in 0 .. lengths[0] - 1 |-> testCases[testCaseIndex][k]]]

----------------------------------------------------------------------------
(* The backward pass of train, lines 877-910, on st = [w, Psi, Omega, psi1] *)

\* A turn that updates the element first and reads the term of Omega after.
UpdateThenOmega(st, act, n, k, j) ==
    LET updated == Add(st.w[n][k][j], Mul(Mul(lambda, act[n][k]), st.Psi[n + 1][j]))
    IN  [st EXCEPT !.Omega = Add(st.Omega, Mul(st.Psi[n + 1][j], updated)),
                   !.w[n][k][j] = updated]

\* One turn of the loop over j (lines 884-885, 898-900): the term of Omega is
\* read from weights[n][k][j], then the element is updated.
OmegaAndUpdate(st, act, n, k, j) ==
    [st EXCEPT !.Omega = Add(st.Omega, Mul(st.Psi[n + 1][j], st.w[n][k][j])),
               !.w[n][k][j] = Add(st.w[n][k][j],
                                  Mul(Mul(lambda, act[n][k]), st.Psi[n + 1][j]))]

\* The loop over j for node k of layer n, from j on.
RECURSIVE OutgoingWeights(_, _, _, _, _)
OutgoingWeights(st, act, n, k, j) ==
    IF j = lengths[n + 1]
    THEN st
    ELSE OutgoingWeights(OmegaAndUpdate(st, act, n, k, j), act, n, k, j + 1)

\* The loop over k of lines 879-889 for a layer n >= 2, from k on.
RECURSIVE HiddenLayerNodes(_, _, _, _, _)
HiddenLayerNodes(st, act, th, n, k) ==
    IF k = lengths[n]
    THEN st
    ELSE LET row == OutgoingWeights([st EXCEPT !.Omega = 0], act, n, k, 0)
         IN  HiddenLayerNodes(
                [row EXCEPT !.Psi[n][k] =
                                Mul(row.Omega, activationFunctionPrime(th[n][k]))],
                act, th, n, k + 1)

\* The loop over n of lines 877-890, from n down to 2.
RECURSIVE UpperLayers(_, _, _, _)
UpperLayers(st, act, th, n) ==
    IF n < 2
    THEN st
    ELSE UpperLayers(HiddenLayerNodes(st, act, th, n, 0), act, th, n - 1)

\* A boundary step that leaves the weights of interval 0 alone.
NoInputWeights(st, act, k, Psik, m) == st

\* The loop over m of lines 905-909 for node k of layer 1, from m on.
RECURSIVE InputWeights(_, _, _, _, _)
InputWeights(st, act, k, Psik, m) ==
    IF m = lengths[0]
    THEN st
    ELSE InputWeights(
            [st EXCEPT !.w[0][m][k] = Add(st.w[0][m][k],
                                          Mul(Mul(lambda, act[0][m]), Psik))],
            act, k, Psik, m + 1)

\* The loop over k of lines 893-910 for layer 1, from k on.
RECURSIVE FirstLayerNodes(_, _, _, _)
FirstLayerNodes(st, act, th, k) ==
    IF k = lengths[1]
    THEN st
    ELSE LET row == OutgoingWeights([st EXCEPT !.Omega = 0], act, 1, k, 0)
             Psik == Mul(row.Omega, activationFunctionPrime(th[1][k]))
         IN  FirstLayerNodes(
                InputWeights([row EXCEPT !.psi1[k] = Psik], act, k, Psik, 0),
                act, th, k + 1)

\* The whole backward pass for one example.
Backward(w, act, th, ps) ==
    FirstLayerNodes(
        UpperLayers([w |-> w, Psi |-> ps, Omega |-> 0,
                     psi1 |-> [k \in 0 .. lengths[1] - 1 |-> 0]],
                    act, th, PENULTIMATE_LAYER),
        act, th, 0)

----------------------------------------------------------------------------
(* train *)

\* The sum of the squared residuals of the outputs act against the targets truth.
RECURSIVE SquaredResiduals(_, _, _)
SquaredResiduals(act, truth, j) ==
    IF j = 0
    THEN 0
    ELSE Add(SquaredResiduals(act, truth, j - 1),
             Mul(Sub(truth[j - 1], act[j - 1]), Sub(truth[j - 1], act[j - 1])))

\* A loop over the test cases that steps by two.
SkipTestCase(i) == i + 2

\* it++ of the loop over the test cases (line 870)
NextTestCase(i) == i + 1

\* The condition of the while loop (lines 865-866).
LoopCondition ==
    /\ iterationsCount <= maxIterations
    /\ (iterationsCount = 0 \/ Gt(EAverage, maxAcceptableError))

\* The test of the while loop, and iterationsCount++ when it holds.
TrainLoopTest ==
    /\ pc = "train_loop"
    /\ IF LoopCondition
       THEN /\ iterationsCount' = iterationsCount + 1
            /\ it' = 0
            /\ processed' = <<>>
            /\ squares' = <<>>
            /\ pc' = IF 0 < testCaseLength THEN "train_forward" ELSE "train_iter_end"
       ELSE /\ pc' = "train_return"
            /\ UNCHANGED <<iterationsCount, it, processed, squares>>
    /\ UNCHANGED <<lengths, weights, returnValue, a, Theta, Psi, testCases, truthTable,
                   maxIterations, maxAcceptableError, lambda, EAverage, ESum,
                   finalError, totalIterations, averages, forwardWeights,
                   backwardWeights, psi1>>
    /\ UNCHANGED <<codecVars, sessionVars, fileVars>>

\* updateInputActivations(it); ESum += runWhilstTraining(it);
TrainForward ==
    /\ pc = "train_forward"
    /\ LET run == RunWhilstTraining([a |-> UpdateInputActivations(a, it),
                                     Theta |-> Theta, Psi |-> Psi], weights, it)
       IN  /\ a' = run.a
           /\ Theta' = run.Theta
           /\ Psi' = run.Psi
           /\ ESum' = Add(ESum, run.error)
           /\ squares' = Append(squares,
                                SquaredResiduals(run.a[OUTPUT_LAYER_INDEX], truthTable[it],
                                                 lengths[OUTPUT_LAYER_INDEX]))
    /\ processed' = Append(processed, it)
    /\ forwardWeights' = weights
    /\ pc' = "train_backward"
    /\ UNCHANGED <<lengths, weights, returnValue, testCases, truthTable, maxIterations,
                   maxAcceptableError, lambda, iterationsCount, EAverage, it,
                   finalError, totalIterations, averages, backwardWeights, psi1>>
    /\ UNCHANGED <<codecVars, sessionVars, fileVars>>

\* The backward pass for test case it, and the step of the loop over it.
TrainBackward ==
    /\ pc = "train_backward"
    /\ LET back == Backward(weights, a, Theta, Psi)
       IN  /\ weights' = back.w
           /\ Psi' = back.Psi
           /\ psi1' = back.psi1
           /\ backwardWeights' = back.w
    /\ it' = NextTestCase(it)
    /\ pc' = IF NextTestCase(it) < testCaseLength THEN "train_forward" ELSE "train_iter_end"
    /\ UNCHANGED <<lengths, returnValue, a, Theta, testCases, truthTable, maxIterations,
                   maxAcceptableError, lambda, iterationsCount, EAverage, ESum,
                   finalError, totalIterations, processed, squares, averages,
                   forwardWeights>>
    /\ UNCHANGED <<codecVars, sessionVars, fileVars>>

\* EAverage = ESum / (double)testCaseLength; ESum = 0.0;
TrainIterationEnd ==
    /\ pc = "train_iter_end"
    /\ EAverage' = Div(ESum, testCaseLength)
    /\ ESum' = 0
    /\ averages' = Append(averages, Div(ESum, testCaseLength))
    /\ pc' = "train_loop"
    /\ UNCHANGED <<lengths, weights, returnValue, a, Theta, Psi, testCases, truthTable,
                   maxIterations, maxAcceptableError, lambda, iterationsCount, it,
                   finalError, totalIterations, processed, squares, forwardWeights,
                   backwardWeights, psi1>>
    /\ UNCHANGED <<codecVars, sessionVars, fileVars>>

\* Lines 925-934: the status and the two results.
TrainReturn ==
    /\ pc = "train_return"
    /\ returnValue' = IF Gt(EAverage, maxAcceptableError) THEN 1 ELSE 0
    /\ finalError' = EAverage
    /\ totalIterations' = iterationsCount
    /\ pc' = "train_done"
    /\ UNCHANGED <<lengths, weights, a, Theta, Psi, testCases, truthTable,
                   maxIterations, maxAcceptableError, lambda, iterationsCount,
                   EAverage, ESum, it, processed, squares, averages, forwardWeights,
                   backwardWeights, psi1>>
    /\ UNCHANGED <<codecVars, sessionVars, fileVars>>

\* The topologies of the training specification: one, two and three hidden layers.
TrainTopologies == {<<1, 1, 1>>, <<2, 2, 1>>, <<1, 2, 2>>, <<1, 1, 2, 1>>, <<1, 1, 1, 1, 1>>}

\* The weights training starts from: all 1, or 1 and -1 in turn.
InitialWeights(lens) ==
    {WeightArray(lens, LAMBDA n, k, j : 1),
     WeightArray(lens, LAMBDA n, k, j : IF (n + k + j) % 2 = 0 THEN 1 ELSE -1)}

\* The rows of testCases and of truthTable; a target can be NaN.
InputRows == {[k \in 0 .. lengths[0] - 1 |-> IF k = 0 THEN x ELSE 1] : x \in {0, 1}}
TruthRows == {[j \in 0 .. lengths[OUTPUT_LAYER_INDEX] - 1 |-> t] : t \in {0, 2, NaN}}

Zeros(n) == [k \in 0 .. lengths[n] - 1 |-> 0]

InitTrain ==
    /\ \E t \in TrainTopologies : lengths = LengthsOf(t)
    /\ weights \in InitialWeights(lengths)
    /\ pc = "train_loop"
    /\ returnValue = 0
    /\ a = [n \in 0 .. activationLayers - 1 |-> Zeros(n)]
    /\ Theta = [n \in 1 .. activationLayers - 2 |-> Zeros(n)]
    /\ Psi = [n \in 2 .. activationLayers - 1 |-> Zeros(n)]
    /\ \E count \in 1 .. MaxTestCases :
         /\ testCases \in [0 .. count - 1 -> InputRows]
         /\ truthTable \in [0 .. count - 1 -> TruthRows]
    /\ maxIterations \in 1 .. MaxIterations
    /\ maxAcceptableError \in {0, 1}
    /\ lambda \in {1, 2}
    /\ iterationsCount = 0
    /\ EAverage = 0
    /\ ESum = 0
    /\ it = 0
    /\ finalError = 0
    /\ totalIterations = 0
    /\ processed = <<>>
    /\ squares = <<>>
    /\ averages = <<>>
    /\ forwardWeights = weights
    /\ backwardWeights = weights
    /\ psi1 = Zeros(1)
    /\ networkConfiguration = <<>> /\ disk = <<>> /\ pos = 0 /\ ln = 0 /\ lk = 0
    /\ ops = 0 /\ lastOp = "none" /\ weightsBefore = weights
    /\ mismatchSeen = FALSE /\ shortRead = FALSE /\ loadOpenFailed = FALSE
    /\ saveOpenFailed = FALSE /\ saveIncomplete = FALSE
    /\ savedWeights = weights /\ roundTrip = FALSE
    /\ SessionUnused
    /\ NoFile

NextTrain ==
    TrainLoopTest \/ TrainForward \/ TrainBackward \/ TrainIterationEnd \/ TrainReturn

SpecTrain == InitTrain /\ [][NextTrain]_vars

----------------------------------------------------------------------------
(* Claims about training *)

TrainReturned == pc = "train_done"

\* The examples 0 .. count - 1 in ascending order.
Ascending(count) == [i \in 1 .. count |-> i - 1]

\* C3: train never executes more than maxIterations iterations: the reported
\* totalIterations is at most maxIterations.
C3_IterationCap == TrainReturned => totalIterations <= maxIterations

\* The loop ended because the counter passed the cap, not because of the error.
EndedAtCap == iterationsCount > maxIterations

\* C4: train returns 0 exactly when the EAverage of the last executed iteration is
\* <= maxAcceptableError, and 1 exactly when the loop ended at the cap with that
\* EAverage > maxAcceptableError; no iteration follows one whose EAverage is
\* <= maxAcceptableError; finalError and totalIterations are those of the last
\* executed iteration.
C4_TrainStatus ==
    /\ TrainReturned =>
         /\ returnValue \in {0, 1}
         /\ returnValue = 0 <=> LessEq(averages[Len(averages)], maxAcceptableError)
         /\ returnValue = 1 <=>
              (EndedAtCap /\ Gt(averages[Len(averages)], maxAcceptableError))
         /\ finalError = averages[Len(averages)]
         /\ totalIterations = Len(averages)
    /\ \A i \in 1 .. Len(averages) - 1 : ~LessEq(averages[i], maxAcceptableError)

\* The part of C4 that holds: the status is 1 exactly when the last EAverage
\* compares greater than maxAcceptableError, and 0 otherwise.
TrainStatusByGreater ==
    /\ TrainReturned =>
         /\ returnValue \in {0, 1}
         /\ returnValue = 1 <=>
              (EndedAtCap /\ Gt(averages[Len(averages)], maxAcceptableError))
         /\ finalError = averages[Len(averages)]
         /\ totalIterations = Len(averages)
    /\ \A i \in 1 .. Len(averages) - 1 : Gt(averages[i], maxAcceptableError)

\* C7: in each iteration the examples are processed once each in ascending order,
\* and the forward pass of every example after the first reads the weights that
\* the backward pass of the example before it left.
C7_InOrderOnline ==
    /\ pc = "train_backward" =>
         /\ processed = Ascending(it + 1)
         /\ it >= 1 => forwardWeights = backwardWeights
    /\ pc = "train_iter_end" => processed = Ascending(testCaseLength)

\* The second example of an iteration is in its forward pass, after a backward
\* pass that changed the weights.
C7_Witness ==
    /\ pc = "train_backward" /\ it = 1
    /\ processed = <<0, 1>>
    /\ forwardWeights = backwardWeights
    /\ forwardWeights \notin InitialWeights(lengths)

\* The sum of the halves of the squared-residual sums sq[1 .. count].
RECURSIVE SumOfHalves(_, _)
SumOfHalves(sq, count) ==
    IF count = 0 THEN 0 ELSE Add(SumOfHalves(sq, count - 1), Div(sq[count], 2))

\* C8: the EAverage of an iteration is the sum, over that iteration's examples
\* only, of half of each example's sum of squared residuals, divided by
\* testCaseLength.
C8_AverageError ==
    (pc = "train_loop" /\ iterationsCount >= 1) =>
        /\ Len(squares) = testCaseLength
        /\ EAverage = Div(SumOfHalves(squares, testCaseLength), testCaseLength)
        /\ ESum = 0

\* A second iteration ended with an error that is a number above zero, after a
\* first one that had an error above zero as well.
C8_Witness ==
    /\ pc = "train_loop" /\ iterationsCount = 2
    /\ Len(squares) = 2
    /\ Gt(EAverage, 0)
    /\ Gt(averages[1], 0)

\* The backward pass of the last processed example is over and nothing ran since.
AfterBackward == pc \in {"train_forward", "train_iter_end"} /\ processed # <<>>

\* The Omega of node k of layer n over the weights w.
RECURSIVE OmegaOver(_, _, _, _)
OmegaOver(w, n, k, j) ==
    IF j = 0
    THEN 0
    ELSE Add(OmegaOver(w, n, k, j - 1), Mul(Psi[n + 1][j - 1], w[n][k][j - 1]))

PsiOver(w, n, k) ==
    Mul(OmegaOver(w, n, k, lengths[n + 1]), activationFunctionPrime(Theta[n][k]))

\* C9: the Omega and Psi of every node of the layers 1 .. activationLayers - 2 are
\* computed from the weights as they were at the end of the forward pass.
C9_OmegaFromForwardWeights ==
    AfterBackward =>
        /\ \A n \in 2 .. activationLayers - 2 : \A k \in 0 .. lengths[n] - 1 :
              Psi[n][k] = PsiOver(forwardWeights, n, k)
        /\ \A k \in 0 .. lengths[1] - 1 : psi1[k] = PsiOver(forwardWeights, 1, k)

\* A backward pass over three hidden layers changed a weight of interval 2
\* and left numbers as the Psi of the layers 1 and 2.
C9_Witness ==
    /\ AfterBackward
    /\ activationLayers = 5
    /\ weights[2] # forwardWeights[2]
    /\ Gt(Psi[2][0], 0) \/ Gt(0, Psi[2][0])
    /\ Gt(psi1[0], 0) \/ Gt(0, psi1[0])

\* C10: one example updates every weight element exactly once:
\* weights[n][k][j] += lambda * a[n][k] * Psi[n + 1][j] for n >= 1 and
\* weights[0][m][k] += lambda * a[0][m] * Psi1[k], where Psi1[k] is the value
\* computed for node k of layer 1.
C10_EveryWeightOnce ==
    AfterBackward =>
        /\ \A n \in 1 .. activationLayers - 2 :
             \A k \in 0 .. lengths[n] - 1 : \A j \in 0 .. lengths[n + 1] - 1 :
                weights[n][k][j] =
                    Add(forwardWeights[n][k][j],
                        Mul(Mul(lambda, a[n][k]), Psi[n + 1][j]))
        /\ \A m \in 0 .. lengths[0] - 1 : \A k \in 0 .. lengths[1] - 1 :
                weights[0][m][k] =
                    Add(forwardWeights[0][m][k],
                        Mul(Mul(lambda, a[0][m]), PsiOver(forwardWeights, 1, k)))

\* A backward pass changed an element of every interval of a network of two
\* hidden layers, the one of interval 0 by a number.
C10_Witness ==
    /\ AfterBackward
    /\ activationLayers = 4
    /\ \A n \in 0 .. 2 : weights[n][0][0] # forwardWeights[n][0][0]
    /\ weights[0][0][0] # NaN

----------------------------------------------------------------------------
(* The buffers of a session: allocateMemory, freeMemory *)

MaxGarbage == 1

INPUT_LAYER_INDEX == 0

\* The layers that have a Theta array and those that have a Psi array: Theta is
\* trueTheta - 1 and Psi is truePsi - 2 (lines 300, 316).
INITIAL_THETA_INDEX == 1
THETA_ARRAY_LIMIT == activationLayers - 1
NUM_THETA_LAYERS == activationLayers - 2
INITIAL_PSI_INDEX == 2
PSI_ARRAY_LIMIT == activationLayers
NUM_PSI_LAYERS == activationLayers - 2

\* A block of the heap is named by the expression that holds its address:
\* <<"a", -1, -1>> is the block a points to, <<"a", n, -1>> the one a[n] points
\* to, <<"weights", n, k>> the one weights[n][k] points to.  The heap maps each
\* live block to its number of elements.
None == -1

\* calloc(activationLayers, ..) and the loop of lines 224-228
ActivationBlocks ==
    [b \in {<<"a", None, None>>} \cup {<<"a", n, None>> : n \in 0 .. activationLayers - 1}
       |-> IF b[2] = None THEN activationLayers ELSE lengths[b[2]]]

\* malloc(NUM_LAYER_INTERVALS * ..) and the loops of lines 240-255
WeightBlocks ==
    [b \in {<<"weights", None, None>>}
             \cup {<<"weights", n, None>> : n \in 0 .. NUM_LAYER_INTERVALS - 1}
             \cup UNION {{<<"weights", n, k>> : k \in 0 .. lengths[n] - 1}
                         : n \in 0 .. NUM_LAYER_INTERVALS - 1}
       |-> IF b[2] = None THEN NUM_LAYER_INTERVALS
           ELSE IF b[3] = None THEN lengths[b[2]] ELSE lengths[b[2] + 1]]

\* malloc(testCaseLength * ..) and the loop of lines 266-270
TestCaseBlocks ==
    [b \in {<<"testCases", None, None>>}
             \cup {<<"testCases", i, None>> : i \in 0 .. testCaseLength - 1}
       |-> IF b[2] = None THEN testCaseLength ELSE lengths[INPUT_LAYER_INDEX]]

\* lines 273-289
TruthTableBlocks ==
    IF training \/ printTruthTable
    THEN [b \in {<<"truthTable", None, None>>}
                  \cup {<<"truthTable", i, None>> : i \in 0 .. testCaseLength - 1}
            |-> IF b[2] = None THEN testCaseLength ELSE lengths[OUTPUT_LAYER_INDEX]]
    ELSE <<>>

\* The blocks of a staging array whose pointer block has count elements, for
\* the layers first .. limit - 1; malloc(0) can return NULL (isNull), and then
\* the array stays NULL and has no block.
StagingBlocks(array, count, first, limit, isNull) ==
    IF isNull
    THEN <<>>
    ELSE [b \in {<<array, None, None>>} \cup {<<array, n, None>> : n \in first .. limit - 1}
            |-> IF b[2] = None THEN count ELSE lengths[b[2]]]

\* lines 291-324
ThetaBlocks(isNull) ==
    IF training
    THEN StagingBlocks("Theta", NUM_THETA_LAYERS, INITIAL_THETA_INDEX,
                       THETA_ARRAY_LIMIT, isNull)
    ELSE <<>>

PsiBlocks(isNull) ==
    IF training
    THEN StagingBlocks("Psi", NUM_PSI_LAYERS, INITIAL_PSI_INDEX, PSI_ARRAY_LIMIT, isNull)
    ELSE <<>>

\* int allocateMemory(): every malloc and calloc of a size above 0 returns a block.
AllocateMemory ==
    /\ pc = "session"
    /\ \E zeroIsNull \in BOOLEAN :
         LET thetaNull == training /\ NUM_THETA_LAYERS = 0 /\ zeroIsNull
             psiNull == training /\ NUM_PSI_LAYERS = 0 /\ zeroIsNull
         IN  /\ heap' = ActivationBlocks @@ WeightBlocks @@ TestCaseBlocks
                          @@ TruthTableBlocks @@ ThetaBlocks(thetaNull) @@ PsiBlocks(psiNull)
             /\ returnValue' = IF thetaNull \/ psiNull THEN -1 ELSE 0
    /\ a' = [n \in 0 .. activationLayers - 1 |-> Zeros(n)]
    /\ pc' = "allocated"
    /\ UNCHANGED <<lengths, weights, training, printTruthTable, reordering, wildFrees,
                   touched, Theta, Psi, testCases, truthTable, maxIterations,
                   maxAcceptableError, lambda, iterationsCount, EAverage, ESum, it,
                   finalError, totalIterations, processed, squares, averages,
                   forwardWeights, backwardWeights, psi1>>
    /\ UNCHANGED <<codecVars, fileVars>>

\* The pointers freeMemory passes to free, loop by loop.
ActivationFrees ==
    {<<"a", i, None>> : i \in 0 .. activationLayers - 1} \cup {<<"a", None, None>>}

TestCaseFrees ==
    {<<"testCases", i, None>> : i \in 0 .. testCaseLength - 1}
      \cup {<<"testCases", None, None>>}

\* lines 1160-1167: the rows and the row arrays; weights itself is not passed
WeightFrees ==
    UNION {{<<"weights", n, k>> : k \in 0 .. lengths[n] - 1} \cup {<<"weights", n, None>>}
           : n \in 0 .. NUM_LAYER_INTERVALS - 1}

\* lines 1170-1177: the loop runs over the nodes of the output layer
TruthTableFrees ==
    IF training \/ printTruthTable
    THEN {<<"truthTable", k, None>> : k \in 0 .. lengths[OUTPUT_LAYER_INDEX] - 1}
           \cup {<<"truthTable", None, None>>}
    ELSE {}

\* lines 1179-1194; free(NULL) does nothing
StagingFrees ==
    IF training
    THEN {<<"Theta", n, None>> : n \in INITIAL_THETA_INDEX .. THETA_ARRAY_LIMIT - 1}
           \cup ({<<"Theta", None, None>>} \cap DOMAIN heap)
           \cup {<<"Psi", n, None>> : n \in INITIAL_PSI_INDEX .. PSI_ARRAY_LIMIT - 1}
           \cup ({<<"Psi", None, None>>} \cap DOMAIN heap)
    ELSE {}

FreedPointers ==
    ActivationFrees \cup TestCaseFrees \cup WeightFrees \cup TruthTableFrees
      \cup StagingFrees

\* void freeMemory().  A pointer that no live block answers was read from
\* outside its array; passing it to free is undefined, and the call then either
\* goes on or ends the program.
FreeMemory ==
    /\ pc \in {"allocated", "trained"}
    /\ heap' = [b \in DOMAIN heap \ FreedPointers |-> heap[b]]
    /\ wildFrees' = FreedPointers \ DOMAIN heap
    /\ IF FreedPointers \subseteq DOMAIN heap
       THEN pc' = "freed"
       ELSE \E after \in {"freed", "crashed"} : pc' = after
    /\ UNCHANGED <<lengths, weights, returnValue, training, printTruthTable, reordering,
                   touched>>
    /\ UNCHANGED <<codecVars, trainVars, fileVars>>

----------------------------------------------------------------------------
(* The array elements one example of training reads and writes *)

\* An access <<b, i>> is to element i of the array whose address the expression
\* b holds; a[n][k] is element n of a and element k of a[n].
ElementA(n, k) == {<<<<"a", None, None>>, n>>, <<<<"a", n, None>>, k>>}

ElementWeights(n, k, j) ==
    {<<<<"weights", None, None>>, n>>, <<<<"weights", n, None>>, k>>,
     <<<<"weights", n, k>>, j>>}

ElementTheta(n, k) == {<<<<"Theta", None, None>>, n>>, <<<<"Theta", n, None>>, k>>}

ElementPsi(n, k) == {<<<<"Psi", None, None>>, n>>, <<<<"Psi", n, None>>, k>>}

ElementLengths(n) == {<<<<"lengths", None, None>>, n>>}

\* The value read as lengths[n]: outside the array it is whatever lies there.
ReadLength(n, garbage) == IF n \in DOMAIN lengths THEN lengths[n] ELSE garbage

\* runWhilstTraining, lines 657-670
HiddenForwardAccesses(garbage) ==
    UNION {ElementLengths(n + 1) \cup ElementLengths(n)
             \cup UNION {ElementTheta(n + 1, j) \cup ElementA(n + 1, j)
                           \cup UNION {ElementA(n, k) \cup ElementWeights(n, k, j)
                                       : k \in 0 .. ReadLength(n, garbage) - 1}
                         : j \in 0 .. ReadLength(n + 1, garbage) - 1}
           : n \in 0 .. NUM_LAYER_INTERVALS_EXEMPTING_THE_LAST - 1}

\* runWhilstTraining, lines 672-687
OutputForwardAccesses(garbage) ==
    LET n == OUTPUT_LAYER_INDEX - 1
    IN  ElementLengths(n + 1) \cup ElementLengths(n)
          \cup UNION {ElementA(n + 1, j) \cup ElementPsi(n + 1, j)
                        \cup UNION {ElementA(n, k) \cup ElementWeights(n, k, j)
                                    : k \in 0 .. ReadLength(n, garbage) - 1}
                      : j \in 0 .. ReadLength(n + 1, garbage) - 1}

\* The body of the loop over k of lines 879-889 and of lines 893-903
OmegaAccesses(n, k, garbage) ==
    ElementLengths(n + 1) \cup ElementTheta(n, k)
      \cup UNION {ElementPsi(n + 1, j) \cup ElementWeights(n, k, j) \cup ElementA(n, k)
                  : j \in 0 .. ReadLength(n + 1, garbage) - 1}

\* train, lines 877-890
UpperBackwardAccesses(garbage) ==
    UNION {ElementLengths(n)
             \cup UNION {OmegaAccesses(n, k, garbage) \cup ElementPsi(n, k)
                         : k \in 0 .. ReadLength(n, garbage) - 1}
           : n \in 2 .. PENULTIMATE_LAYER}

\* train, lines 892-910: n = 1, whatever the number of layers
FirstBackwardAccesses(garbage) ==
    LET n == 1
    IN  ElementLengths(n)
          \cup UNION {OmegaAccesses(n, k, garbage) \cup ElementLengths(n - 1)
                        \cup UNION {ElementWeights(INPUT_LAYER_INDEX, m, k)
                                      \cup ElementA(INPUT_LAYER_INDEX, m)
                                    : m \in 0 .. ReadLength(n - 1, garbage) - 1}
                      : k \in 0 .. ReadLength(n, garbage) - 1}

TrainingAccesses(garbage) ==
    HiddenForwardAccesses(garbage) \cup OutputForwardAccesses(garbage)
      \cup UpperBackwardAccesses(garbage) \cup FirstBackwardAccesses(garbage)

\* The first index of a pointer array: Theta and Psi are offset pointers.
FirstIndex(b) ==
    IF b[2] # None THEN 0
    ELSE IF b[1] = "Theta" THEN INITIAL_THETA_INDEX
    ELSE IF b[1] = "Psi" THEN INITIAL_PSI_INDEX
    ELSE 0

\* The access is to an element of a live block (of lengths: to one of its
\* activationLayers elements).
InRange(access) ==
    LET b == access[1]
        i == access[2]
    IN  IF b[1] = "lengths"
        THEN i \in DOMAIN lengths
        ELSE b \in DOMAIN heap /\ i - FirstIndex(b) \in 0 .. heap[b] - 1

\* One turn of the loop over it of train (lines 870-911), as the elements it
\* reads and writes.  An access outside the blocks is undefined: the value read
\* is any (garbage), and the program goes on or ends.
TrainAccess ==
    /\ pc = "allocated"
    /\ training
    /\ \E garbage \in 0 .. MaxGarbage :
         /\ touched' = TrainingAccesses(garbage)
         /\ IF \A access \in TrainingAccesses(garbage) : InRange(access)
            THEN pc' = "trained"
            ELSE \E after \in {"trained", "crashed"} : pc' = after
    /\ UNCHANGED <<lengths, weights, returnValue, training, printTruthTable, reordering,
                   heap, wildFrees>>
    /\ UNCHANGED <<codecVars, trainVars, fileVars>>

----------------------------------------------------------------------------
(* The sessions of allocateMemory, training and freeMemory *)

\* Two, three and four layers; the output layer is shorter, as long and longer
\* than the number of test cases.
MemoryTopologies ==
    {<<1, 1>>, <<2, 1>>, <<1, 2>>, <<2, 3>>, <<1, 1, 1>>, <<2, 1, 2>>, <<1, 2, 3>>,
     <<1, 1, 1, 1>>, <<2, 1, 2, 1>>}

\* The variables of the codec when no file of weights is used.
CodecUnused ==
    /\ networkConfiguration = <<>> /\ disk = <<>> /\ pos = 0 /\ ln = 0 /\ lk = 0
    /\ ops = 0 /\ lastOp = "none" /\ weightsBefore = <<>>
    /\ mismatchSeen = FALSE /\ shortRead = FALSE /\ loadOpenFailed = FALSE
    /\ saveOpenFailed = FALSE /\ saveIncomplete = FALSE
    /\ savedWeights = <<>> /\ roundTrip = FALSE

\* The locals and results of train when train is not called.
TrainUncalled ==
    /\ maxIterations = 0 /\ maxAcceptableError = 0 /\ lambda = 0
    /\ iterationsCount = 0 /\ EAverage = 0 /\ ESum = 0 /\ it = 0
    /\ finalError = 0 /\ totalIterations = 0
    /\ processed = <<>> /\ squares = <<>> /\ averages = <<>>
    /\ forwardWeights = <<>> /\ backwardWeights = <<>> /\ psi1 = <<>>

\* Before allocateMemory: every pointer is NULL, testCaseLength (the number of
\* rows testCases is to have) and the flags are set.
InitMemory ==
    /\ \E t \in MemoryTopologies : lengths = LengthsOf(t)
    /\ training \in BOOLEAN
    /\ printTruthTable \in BOOLEAN
    /\ \E count \in 1 .. MaxTestCases : testCases = [i \in 0 .. count - 1 |-> <<>>]
    /\ truthTable = <<>>
    /\ weights = <<>> /\ a = <<>> /\ Theta = <<>> /\ Psi = <<>>
    /\ heap = <<>> /\ wildFrees = {} /\ touched = {}
    /\ reordering = 0
    /\ pc = "session"
    /\ returnValue = 0
    /\ TrainUncalled
    /\ CodecUnused
    /\ NoFile

NextMemory == AllocateMemory \/ TrainAccess \/ FreeMemory

SpecMemory == InitMemory /\ [][NextMemory]_vars

----------------------------------------------------------------------------
(* Claims about the buffers *)

\* C11: after allocateMemory and then freeMemory no block that allocateMemory
\* allocated is live, and free was given no pointer that no block answered.
C11_FreeReleasesAll ==
    (pc = "freed" \/ (pc = "crashed" /\ wildFrees # {}))
        => (DOMAIN heap = {} /\ wildFrees = {})

\* The rows of truthTable are all released when the output layer has as many
\* nodes as there are test cases (the part of C11 that holds for them).
TruthTableRowsReleased ==
    (pc = "freed" /\ lengths[OUTPUT_LAYER_INDEX] = testCaseLength)
        => (wildFrees = {} /\ DOMAIN heap \subseteq {<<"weights", None, None>>})

\* C13: every element training reads or writes is an element of a block that
\* allocateMemory allocated (of lengths: one of its activationLayers elements).
C13_TrainingIndicesInRange ==
    pc = "trained" => \A access \in touched : InRange(access)

\* With three layers or more it is so (the part of C13 that holds).
IndicesInRangeFromThreeLayers ==
    (pc = "trained" /\ activationLayers >= 3) => \A access \in touched : InRange(access)

----------------------------------------------------------------------------
(* run and runTestCases *)

MaxRunCases == 4
MaxReordering == 2

\* A run that stores the activation of node j in the layer it read from.
RunSameLayer(n) == n

\* The layer whose activations interval n of run writes (line 637).
RunTarget(n) == n + 1

\* The loop over j of lines 630-638 for interval n, from j on.
RECURSIVE RunNodes(_, _, _, _)
RunNodes(act, w, n, j) ==
    IF j = lengths[n + 1]
    THEN act
    ELSE RunNodes([act EXCEPT ![RunTarget(n)][j] =
                       activationFunction(WeightedSum(act, w, n, j, 0, 0))],
                  w, n, j + 1)

\* The loop over n of lines 628-639, from n on.
RECURSIVE RunLayers(_, _, _)
RunLayers(act, w, n) ==
    IF n >= NUM_LAYER_INTERVALS THEN act ELSE RunLayers(RunNodes(act, w, n, 0), w, n + 1)

\* void run(): the activations it leaves.
Run(act, w) == RunLayers(act, w, 0)

\* The index of the test case that turn i of runTestCases evaluates (lines 775-780).
TrueIteration(i) ==
    IF reordering # 0 THEN reordering * (i % reordering) + i \div reordering ELSE i

\* Lines 773-783: the loop test, trueIteration and updateInputActivations.  With
\* trueIteration outside testCases the row read is undefined: the input
\* activations get any values, or the program ends.
RunTestCasesUpdate ==
    /\ pc = "run_loop"
    /\ it < testCaseLength
    /\ LET trueIteration == TrueIteration(it)
       IN  /\ processed' = Append(processed, trueIteration)
           /\ IF trueIteration \in DOMAIN testCases
              THEN /\ a' = UpdateInputActivations(a, trueIteration)
                   /\ pc' = "run_net"
              ELSE \/ /\ \E row \in InputRows : a' = [a EXCEPT ![INPUT_LAYER_INDEX] = row]
                      /\ pc' = "run_net"
                   \/ /\ a' = a
                      /\ pc' = "crashed"
    /\ UNCHANGED <<lengths, weights, returnValue, Theta, Psi, testCases, truthTable,
                   maxIterations, maxAcceptableError, lambda, iterationsCount,
                   EAverage, ESum, it, finalError, totalIterations, squares, averages,
                   forwardWeights, backwardWeights, psi1>>
    /\ UNCHANGED <<codecVars, sessionVars, fileVars>>

\* Lines 784-808: run() and the row of the table; it++.
RunTestCasesRun ==
    /\ pc = "run_net"
    /\ a' = Run(a, weights)
    /\ it' = it + 1
    /\ pc' = "run_loop"
    /\ UNCHANGED <<lengths, weights, returnValue, Theta, Psi, testCases, truthTable,
                   maxIterations, maxAcceptableError, lambda, iterationsCount,
                   EAverage, ESum, finalError, totalIterations, processed, squares,
                   averages, forwardWeights, backwardWeights, psi1>>
    /\ UNCHANGED <<codecVars, sessionVars, fileVars>>

\* Lines 808-812: the loop ends and the function returns.
RunTestCasesReturn ==
    /\ pc = "run_loop"
    /\ it >= testCaseLength
    /\ pc' = "run_done"
    /\ UNCHANGED <<lengths, weights, returnValue>>
    /\ UNCHANGED <<codecVars, trainVars, sessionVars, fileVars>>

\* The topologies of the evaluation: two, three and four layers.
RunTopologies == {<<1, 1>>, <<2, 1>>, <<1, 2, 1>>, <<2, 2, 2>>, <<1, 1, 1, 1>>}

\* runTestCases is called on an allocated network, after training or without it:
\* the staging arrays hold what training left (here 1 everywhere).
InitRun ==
    /\ \E t \in RunTopologies : lengths = LengthsOf(t)
    /\ weights \in InitialWeights(lengths)
    /\ a = [n \in 0 .. activationLayers - 1 |-> Zeros(n)]
    /\ Theta = [n \in INITIAL_THETA_INDEX .. THETA_ARRAY_LIMIT - 1 |->
                   [k \in 0 .. lengths[n] - 1 |-> 1]]
    /\ Psi = [n \in INITIAL_PSI_INDEX .. PSI_ARRAY_LIMIT - 1 |->
                 [k \in 0 .. lengths[n] - 1 |-> 1]]
    /\ \E count \in 1 .. MaxRunCases :
         /\ testCases \in [0 .. count - 1 -> InputRows]
         /\ truthTable = [i \in 0 .. count - 1 |->
                             [j \in 0 .. lengths[OUTPUT_LAYER_INDEX] - 1 |-> 0]]
    /\ reordering \in 0 .. MaxReordering
    /\ training = FALSE /\ printTruthTable = FALSE
    /\ heap = <<>> /\ wildFrees = {} /\ touched = {}
    /\ pc = "run_loop"
    /\ returnValue = 0
    /\ TrainUncalled
    /\ CodecUnused
    /\ NoFile

NextRun == RunTestCasesUpdate \/ RunTestCasesRun \/ RunTestCasesReturn

SpecRun == InitRun /\ [][NextRun]_vars

----------------------------------------------------------------------------
(* Claims about the evaluation *)

\* C12: run() leaves every weight matrix, the activation vector of layer 0 and
\* the Theta and Psi arrays as they were; it writes the activations of the
\* layers 1 .. activationLayers - 1 only.
C12_RunFrame ==
    [][pc = "run_net" =>
          /\ weights' = weights
          /\ a'[INPUT_LAYER_INDEX] = a[INPUT_LAYER_INDEX]
          /\ Theta' = Theta
          /\ Psi' = Psi
          /\ DOMAIN a' = DOMAIN a]_vars

\* run() has set the output of a network with a hidden layer from an input of
\* two nodes, 1 and 1, and the staging arrays are there.
C12_Witness ==
    /\ pc = "run_loop"
    /\ it >= 1
    /\ activationLayers = 3
    /\ a[INPUT_LAYER_INDEX] = [k \in 0 .. 1 |-> 1]
    /\ a[OUTPUT_LAYER_INDEX] # Zeros(OUTPUT_LAYER_INDEX)
    /\ DOMAIN Theta # {}
    /\ DOMAIN Psi # {}

\* The indices evaluated so far are test cases, each one once.
EachOnce ==
    /\ \A i \in 1 .. Len(processed) : processed[i] \in 0 .. testCaseLength - 1
    /\ \A i, j \in 1 .. Len(processed) : processed[i] = processed[j] => i = j

\* C14: the indices runTestCases evaluates are inside 0 .. testCaseLength - 1,
\* none is evaluated twice, and when it returns all have been evaluated.
C14_EveryTestCaseOnce ==
    /\ pc \in {"run_loop", "run_net", "run_done", "crashed"} => EachOnce
    /\ pc = "run_done" => Len(processed) = testCaseLength

\* Without reordering, with reordering 1 and with reordering * reordering test
\* cases it is so (the part of C14 that holds).
EveryTestCaseOnceInOrder ==
    (reordering \in {0, 1} \/ reordering * reordering = testCaseLength)
        => /\ pc \in {"run_loop", "run_net", "run_done", "crashed"} => EachOnce
           /\ pc = "run_done" => Len(processed) = testCaseLength

----------------------------------------------------------------------------
(* Termination of the load *)

\* The program is sequential: while the call runs, its next step is taken.
SpecLoadRuns == InitLoad /\ [][NextLoad]_vars /\ WF_vars(NextLoad)

\* C15: every call of propagateWeightsFromFile returns, whatever the file holds:
\* from the loop that skips the header line the call always gets to its return.
C15_LoadTerminates == (pc = "load_skip") ~> (pc = "idle")

\* Once the header line has been skipped the call returns (the part of C15
\* that holds).
LoadTerminatesAfterHeader == (pc = "load_header") ~> (pc = "idle")

----------------------------------------------------------------------------
(* propagateTestCasesFromFile, propagateTruthTableFromFile *)

\* What fread(&x, sizeof(int), 1, file) at position p can leave in an int x
\* that was 0: the int of the file, 0 when nothing is left to read, and an
\* indeterminate value (equal to expected or not) when the file ends inside it.
IntAt(p, expected) ==
    IF Len(disk) - p >= SizeofInt
    THEN {BytesToInt(SubSeq(disk, p + 1, p + SizeofInt))}
    ELSE IF Len(disk) <= p THEN {0} ELSE {0, expected}

\* The file position after that fread.
AfterIntAt(p) == IF Len(disk) - p >= SizeofInt THEN p + SizeofInt ELSE Max(p, Len(disk))

\* Lines 489-522: fopen, the two counts of the header and their comparison.
PropagateTestCasesOpen ==
    /\ pc = "idle"
    /\ ops < MaxOps
    /\ ops' = ops + 1
    /\ closes' = <<>>
    /\ it' = 0
    /\ \E opened \in BOOLEAN :
         /\ fileOpened' = opened
         /\ IF ~opened
            THEN /\ returnValue' = -1
                 /\ pos' = pos
                 /\ pc' = "idle"
                 /\ lastOp' = "testCases"
            ELSE \E fileInputLength \in IntAt(0, lengths[INPUT_LAYER_INDEX]),
                    fileTestCaseLength \in IntAt(AfterIntAt(0), testCaseLength) :
                   /\ returnValue' =
                        IF fileInputLength # lengths[INPUT_LAYER_INDEX]
                             \/ fileTestCaseLength # testCaseLength
                        THEN -1 ELSE 0
                   /\ pos' = AfterIntAt(AfterIntAt(0))
                   /\ pc' = "testCases_rows"
                   /\ lastOp' = lastOp
    /\ UNCHANGED <<lengths, weights, networkConfiguration, disk, ln, lk, weightsBefore,
                   mismatchSeen, shortRead, loadOpenFailed, saveOpenFailed,
                   saveIncomplete, savedWeights, roundTrip>>
    /\ UNCHANGED <<a, Theta, Psi, testCases, truthTable, maxIterations,
                   maxAcceptableError, lambda, iterationsCount, EAverage, ESum,
                   finalError, totalIterations, processed, squares, averages,
                   forwardWeights, backwardWeights, psi1>>
    /\ UNCHANGED sessionVars

\* One turn of the loop of lines 524-534.
PropagateTestCasesReadRow ==
    /\ pc = "testCases_rows"
    /\ \E row \in FreadRow(testCases[it], lengths[INPUT_LAYER_INDEX]) :
         testCases' = [testCases EXCEPT ![it] = row]
    /\ returnValue' = IF FreadItems(lengths[INPUT_LAYER_INDEX]) < lengths[INPUT_LAYER_INDEX]
                      THEN -1 ELSE returnValue
    /\ pos' = AfterFread(SizeofDouble * lengths[INPUT_LAYER_INDEX])
    /\ it' = it + 1
    /\ pc' = IF it + 1 < testCaseLength THEN pc ELSE "testCases_return"
    /\ UNCHANGED <<lengths, weights, networkConfiguration, disk, ln, lk, ops, lastOp,
                   weightsBefore, mismatchSeen, shortRead, loadOpenFailed,
                   saveOpenFailed, saveIncomplete, savedWeights, roundTrip>>
    /\ UNCHANGED <<fileVars, sessionVars>>
    /\ UNCHANGED <<a, Theta, Psi, truthTable, maxIterations,
                   maxAcceptableError, lambda, iterationsCount, EAverage, ESum,
                   finalError, totalIterations, processed, squares, averages,
                   forwardWeights, backwardWeights, psi1>>

\* Line 537: return returnValue; the stream is left open.
PropagateTestCasesReturn ==
    /\ pc = "testCases_return"
    /\ pc' = "idle"
    /\ lastOp' = "testCases"
    /\ UNCHANGED <<lengths, weights, returnValue, networkConfiguration, disk, pos, ln, lk,
                   ops, weightsBefore, mismatchSeen, shortRead, loadOpenFailed,
                   saveOpenFailed, saveIncomplete, savedWeights, roundTrip>>
    /\ UNCHANGED <<trainVars, sessionVars, fileVars>>

\* Lines 559-592: fopen, the two counts of the header and their comparison.
\* When fopen returned NULL the function still calls fclose(file) (line 606),
\* which is undefined: the call then returns or ends the program.
PropagateTruthTableOpen ==
    /\ pc = "idle"
    /\ ops < MaxOps
    /\ ops' = ops + 1
    /\ it' = 0
    /\ \E opened \in BOOLEAN :
         /\ fileOpened' = opened
         /\ IF ~opened
            THEN /\ returnValue' = -1
                 /\ pos' = pos
                 /\ closes' = Fclose(FALSE, <<>>)
                 /\ \E after \in {"idle", "crashed"} : pc' = after
                 /\ lastOp' = "truthTable"
            ELSE \E fileOutputLength \in IntAt(0, lengths[OUTPUT_LAYER_INDEX]),
                    fileTestCaseLength \in IntAt(AfterIntAt(0), testCaseLength) :
                   /\ returnValue' =
                        IF fileOutputLength # lengths[OUTPUT_LAYER_INDEX]
                             \/ fileTestCaseLength # testCaseLength
                        THEN -1 ELSE 0
                   /\ pos' = AfterIntAt(AfterIntAt(0))
                   /\ closes' = <<>>
                   /\ pc' = "truthTable_rows"
                   /\ lastOp' = lastOp
    /\ UNCHANGED <<lengths, weights, networkConfiguration, disk, ln, lk, weightsBefore,
                   mismatchSeen, shortRead, loadOpenFailed, saveOpenFailed,
                   saveIncomplete, savedWeights, roundTrip>>
    /\ UNCHANGED <<a, Theta, Psi, testCases, truthTable, maxIterations,
                   maxAcceptableError, lambda, iterationsCount, EAverage, ESum,
                   finalError, totalIterations, processed, squares, averages,
                   forwardWeights, backwardWeights, psi1>>
    /\ UNCHANGED sessionVars

\* One turn of the loop of lines 594-604.
PropagateTruthTableReadRow ==
    /\ pc = "truthTable_rows"
    /\ \E row \in FreadRow(truthTable[it], lengths[OUTPUT_LAYER_INDEX]) :
         truthTable' = [truthTable EXCEPT ![it] = row]
    /\ returnValue' = IF FreadItems(lengths[OUTPUT_LAYER_INDEX]) < lengths[OUTPUT_LAYER_INDEX]
                      THEN -1 ELSE returnValue
    /\ pos' = AfterFread(SizeofDouble * lengths[OUTPUT_LAYER_INDEX])
    /\ it' = it + 1
    /\ pc' = IF it + 1 < testCaseLength THEN pc ELSE "truthTable_return"
    /\ UNCHANGED <<lengths, weights, networkConfiguration, disk, ln, lk, ops, lastOp,
                   weightsBefore, mismatchSeen, shortRead, loadOpenFailed,
                   saveOpenFailed, saveIncomplete, savedWeights, roundTrip>>
    /\ UNCHANGED <<fileVars, sessionVars>>
    /\ UNCHANGED <<a, Theta, Psi, testCases, maxIterations,
                   maxAcceptableError, lambda, iterationsCount, EAverage, ESum,
                   finalError, totalIterations, processed, squares, averages,
                   forwardWeights, backwardWeights, psi1>>

\* Lines 606-607: fclose(file); return returnValue;
PropagateTruthTableReturn ==
    /\ pc = "truthTable_return"
    /\ pc' = "idle"
    /\ lastOp' = "truthTable"
    /\ closes' = Fclose(fileOpened, closes)
    /\ fileOpened' = fileOpened
    /\ UNCHANGED <<lengths, weights, returnValue, networkConfiguration, disk, pos, ln, lk,
                   ops, weightsBefore, mismatchSeen, shortRead, loadOpenFailed,
                   saveOpenFailed, saveIncomplete, savedWeights, roundTrip>>
    /\ UNCHANGED <<trainVars, sessionVars>>

----------------------------------------------------------------------------
(* The sessions of the file operations *)

FileTopologies == {<<1, 1>>, <<2, 1>>}

\* A file of test cases or of the truth table: the row length, the number of
\* rows, then the rows, each element the double 10 + its index.
RECURSIVE DataRows(_, _)
DataRows(width, count) ==
    IF count = 0
    THEN <<>>
    ELSE Concat(ArrayToSeq([k \in 0 .. width - 1 |-> DoubleRep(10 + k)], width))
           \o DataRows(width, count - 1)

DataFile(width, count) == IntBytes(width) \o IntBytes(count) \o DataRows(width, count)

\* The files found under the names the operations open: none yet written, a
\* data file of one or two rows of one element, the same cut short.
EnvDataFiles ==
    {<<>>, DataFile(1, 1), DataFile(1, 2), SubSeq(DataFile(1, 1), 1, 6),
     SubSeq(DataFile(1, 2), 1, 20)}

InitFiles ==
    /\ \E t \in FileTopologies : lengths = LengthsOf(t)
    /\ networkConfiguration = <<>>
    /\ weights = WeightArray(lengths, LAMBDA n, k, j : DoubleRep(266 + 10 * k + j))
    /\ disk \in EnvDataFiles
    /\ pc = "idle"
    /\ returnValue = 0
    /\ pos = 0 /\ ln = 0 /\ lk = 0 /\ ops = 0
    /\ lastOp = "none"
    /\ weightsBefore = weights
    /\ mismatchSeen = FALSE /\ shortRead = FALSE /\ loadOpenFailed = FALSE
    /\ saveOpenFailed = FALSE /\ saveIncomplete = FALSE
    /\ savedWeights = weights /\ roundTrip = FALSE
    /\ \E count \in 1 .. MaxTestCases :
         /\ testCases = [i \in 0 .. count - 1 |->
                            [k \in 0 .. lengths[INPUT_LAYER_INDEX] - 1 |-> DoubleRep(0)]]
         /\ truthTable = [i \in 0 .. count - 1 |->
                             [j \in 0 .. lengths[OUTPUT_LAYER_INDEX] - 1 |-> DoubleRep(0)]]
    /\ a = <<>> /\ Theta = <<>> /\ Psi = <<>>
    /\ TrainUncalled
    /\ SessionUnused
    /\ NoFile

NextFiles ==
    \/ SaveWeights
    \/ Load
    \/ PropagateTestCasesOpen \/ PropagateTestCasesReadRow \/ PropagateTestCasesReturn
    \/ PropagateTruthTableOpen \/ PropagateTruthTableReadRow \/ PropagateTruthTableReturn

SpecFiles == InitFiles /\ [][NextFiles]_vars

----------------------------------------------------------------------------
(* Claims about the file handles *)

FileOperationEnded ==
    pc \in {"idle", "crashed"} /\ lastOp \in {"save", "load", "testCases", "truthTable"}

\* C16: when a file operation has ended, a stream that fopen returned has been
\* closed exactly once, and fclose was never given a handle whose fopen failed
\* or that was closed already.
C16_HandleClosedOnce ==
    FileOperationEnded => closes = (IF fileOpened THEN <<"open">> ELSE <<>>)

\* propagateWeightsFromFile does so (the part of C16 that holds).
LoadClosesOnce ==
    (pc = "idle" /\ lastOp = "load")
        => closes = (IF fileOpened THEN <<"open">> ELSE <<>>)

====
